---------------------------- MODULE Spec2Model ----------------------------
(***************************************************************************)
(* A model of aiosu's beatmap-file parser (aiosu/utils/parsers/beatmap.py) *)
(* and of the document model it builds (aiosu/models/files/beatmap.py).    *)
(*                                                                         *)
(* Text is modelled as TLA+ strings; a line is taken apart character by    *)
(* character with SubSeq, so startswith, split, strip, int() and float()   *)
(* are computed as Python computes them on the inputs the model draws.     *)
(* A Python dict is a function whose domain is the set of keys present;    *)
(* None is the empty tuple and a present optional value v is <<v>>; a      *)
(* float is the exact rational [n, d] in lowest terms.                     *)
(* The MD5 digest of the buffer (file_md5) is not modelled: no property    *)
(* checked here depends on it.                                             *)
(***************************************************************************)
EXTENDS Integers, Sequences, FiniteSets, TLC

\* ------------------------------------------------------------------ bounds

\* Lines the model appends after the fixed part of the input file.
MaxTail == 3

\* Depth of the Python call stack at which the interpreter raises
\* RecursionError (sys.getrecursionlimit(), 1000 by default), scaled down.
RecursionLimit == 6

\* ------------------------------------------------------------ text helpers
\* The helpers that walk a string are functions: TLC evaluates the argument
\* of a function application once, and an operator's argument at every use.

Ch(s, i) == SubSeq(s, i, i)

Max(a, b) == IF a >= b THEN a ELSE b

Abs(a) == IF a < 0 THEN -a ELSE a

GCD[a \in Nat, b \in Nat] == IF b = 0 THEN a ELSE GCD[b, a % b]

Pow10[k \in Nat] == IF k = 0 THEN 1 ELSE 10 * Pow10[k - 1]

\* str.find: the first index >= i of character c in s, 0 when there is none.
IndexOf[s \in STRING, c \in STRING, i \in Nat] ==
    IF i > Len(s) THEN 0
    ELSE IF Ch(s, i) = c THEN i
    ELSE IndexOf[s, c, i + 1]

\* c in chars, for a character c
In(c, chars) == IndexOf[chars, c, 1] > 0

StartsWith(s, p) == Len(s) >= Len(p) /\ SubSeq(s, 1, Len(p)) = p

EndsWith(s, p) == Len(s) >= Len(p) /\ SubSeq(s, Len(s) - Len(p) + 1, Len(s)) = p

\* The characters str.strip() removes, among those the model's lines use.
Whitespace == " \t"

LStripChars[s \in STRING, chars \in STRING] ==
    IF Len(s) > 0 /\ In(Ch(s, 1), chars)
    THEN LStripChars[SubSeq(s, 2, Len(s)), chars]
    ELSE s

RStripChars[s \in STRING, chars \in STRING] ==
    IF Len(s) > 0 /\ In(Ch(s, Len(s)), chars)
    THEN RStripChars[SubSeq(s, 1, Len(s) - 1), chars]
    ELSE s

\* s.strip(chars)
StripChars(s, chars) == RStripChars[LStripChars[s, chars], chars]

\* s.strip()
Strip(s) == StripChars(s, Whitespace)

\* s.split(sep) for a one-character separator: every piece, empty ones kept.
Split[s \in STRING, sep \in STRING] ==
    IF IndexOf[s, sep, 1] = 0 THEN <<s>>
    ELSE <<SubSeq(s, 1, IndexOf[s, sep, 1] - 1)>>
            \o Split[SubSeq(s, IndexOf[s, sep, 1] + 1, Len(s)), sep]

\* s.split(sep, 1): at most two pieces.
SplitOnce[s \in STRING, sep \in STRING] ==
    IF IndexOf[s, sep, 1] = 0 THEN <<s>>
    ELSE <<SubSeq(s, 1, IndexOf[s, sep, 1] - 1),
           SubSeq(s, IndexOf[s, sep, 1] + 1, Len(s))>>

UpperAlphabet == "ABCDEFGHIJKLMNOPQRSTUVWXYZ"

LowerAlphabet == "abcdefghijklmnopqrstuvwxyz"

\* s with every character of from replaced by the one at its place in to.
MapCase[s \in STRING, from \in STRING, to \in STRING] ==
    IF Len(s) = 0 THEN ""
    ELSE (IF In(Ch(s, 1), from) THEN Ch(to, IndexOf[from, Ch(s, 1), 1]) ELSE Ch(s, 1))
            \o MapCase[SubSeq(s, 2, Len(s)), from, to]

\* s.lower()
Lower(s) == MapCase[s, UpperAlphabet, LowerAlphabet]

\* s.upper()
Upper(s) == MapCase[s, LowerAlphabet, UpperAlphabet]

Digits == "0123456789"

\* str.isdigit(): not empty and every character a digit.
IsDigit[s \in STRING] ==
    /\ Len(s) > 0
    /\ \A i \in 1..Len(s) : In(Ch(s, i), Digits)

\* The number a string of digits writes.
NatOf[s \in STRING] ==
    IF Len(s) = 0 THEN 0
    ELSE 10 * NatOf[SubSeq(s, 1, Len(s) - 1)] + (IndexOf[Digits, Ch(s, Len(s)), 1] - 1)

\* t without its sign, for a stripped literal t.
Unsigned[t \in STRING] ==
    IF Len(t) > 0 /\ In(Ch(t, 1), "+-") THEN SubSeq(t, 2, Len(t)) ELSE t

\* -1 when the stripped literal t starts with a minus sign.
SignOf[t \in STRING] == IF Len(t) > 0 /\ Ch(t, 1) = "-" THEN -1 ELSE 1

\* int(s): surrounding whitespace and one sign are accepted, then digits only.
\* [ok |-> FALSE] stands for the ValueError int() raises.
PyInt[s \in STRING] ==
    IF IsDigit[Unsigned[Strip(s)]]
    THEN [ok |-> TRUE, val |-> SignOf[Strip(s)] * NatOf[Unsigned[Strip(s)]]]
    ELSE [ok |-> FALSE, val |-> 0]

\* A float as an exact rational in lowest terms, d > 0.
Rat(n, d) ==
    IF n = 0 THEN [n |-> 0, d |-> 1]
    ELSE [n |-> n \div GCD[Abs(n), d], d |-> d \div GCD[Abs(n), d]]

\* The digits of the unsigned decimal literal b with its point removed, and
\* how many of them follow the point.
Mantissa[b \in STRING] ==
    IF IndexOf[b, ".", 1] = 0 THEN [digits |-> b, places |-> 0]
    ELSE [digits |-> SubSeq(b, 1, IndexOf[b, ".", 1] - 1)
                        \o SubSeq(b, IndexOf[b, ".", 1] + 1, Len(b)),
          places |-> Len(b) - IndexOf[b, ".", 1]]

\* float(s) for decimal literals: sign, digits, an optional point and digits.
PyFloat[s \in STRING] ==
    IF IsDigit[Mantissa[Unsigned[Strip(s)]].digits]
    THEN [ok |-> TRUE,
          val |-> Rat(SignOf[Strip(s)] * NatOf[Mantissa[Unsigned[Strip(s)]].digits],
                      Pow10[Mantissa[Unsigned[Strip(s)]].places])]
    ELSE [ok |-> FALSE, val |-> Rat(0, 1)]

\* ------------------------------------------------------- Python exceptions

NoError == [type |-> "", msg |-> ""]

\* lines[i] or "...".split(...)[i] past the end of the list.
IndexError == [type |-> "IndexError", msg |-> "list index out of range"]

IntValueError(s) ==
    [type |-> "ValueError", msg |-> "invalid literal for int() with base 10: " \o s]

FloatValueError(s) ==
    [type |-> "ValueError", msg |-> "could not convert string to float: " \o s]

ZeroDivisionError == [type |-> "ZeroDivisionError", msg |-> "float division by zero"]

RecursionError ==
    [type |-> "RecursionError", msg |-> "maximum recursion depth exceeded"]

UnsupportedLine(name, line) ==
    [type |-> "ValueError", msg |-> "Unsupported " \o name \o " section line: " \o line]

\* What a line handler does: it returns (key, value) or raises err.
Ret(k, v) == [err |-> NoError, key |-> k, value |-> v]

Raise(e) == [err |-> e, key |-> "", value |-> <<>>]

IntField(k, value) ==
    LET r == PyInt[value]
    IN  IF r.ok THEN Ret(k, r.val) ELSE Raise(IntValueError(value))

FloatField(k, value) ==
    LET r == PyFloat[value]
    IN  IF r.ok THEN Ret(k, r.val) ELSE Raise(FloatValueError(value))

\* bool(int(value))
BoolField(k, value) ==
    LET r == PyInt[value]
    IN  IF r.ok THEN Ret(k, r.val # 0) ELSE Raise(IntValueError(value))

\* [int(b) for b in value.split(",")]
IntListField(k, value) ==
    LET parts == Split[value, ","]
        bad == {i \in 1..Len(parts) : ~PyInt[parts[i]].ok}
    IN  IF bad = {}
        THEN Ret(k, [i \in 1..Len(parts) |-> PyInt[parts[i]].val])
        ELSE Raise(IntValueError(parts[CHOOSE i \in bad : \A j \in bad : i <= j]))

\* --------------------------------------------- the Key: value line handlers

\* s.split(":", 1)[1].strip(); ok = FALSE is the IndexError of a line
\* with no colon.
_parse_section_value_from_str(s) ==
    LET parts == SplitOnce[s, ":"]
    IN  IF Len(parts) < 2 THEN [ok |-> FALSE, val |-> ""]
        ELSE [ok |-> TRUE, val |-> Strip(parts[2])]

_parse_general_section_line(line) ==
    LET v == _parse_section_value_from_str(line)
        value == v.val
    IN  IF ~v.ok THEN Raise(IndexError)
        ELSE IF StartsWith(line, "AudioFilename") THEN Ret("audio_filename", value)
        ELSE IF StartsWith(line, "AudioLeadIn") THEN IntField("audio_lead_in", value)
        ELSE IF StartsWith(line, "AudioHash") THEN Ret("audio_hash", value)
        ELSE IF StartsWith(line, "PreviewTime") THEN IntField("preview_time", value)
        ELSE IF StartsWith(line, "Countdown") THEN IntField("countdown", value)
        ELSE IF StartsWith(line, "SampleSet") THEN Ret("sample_set", value)
        ELSE IF StartsWith(line, "StackLeniency") THEN FloatField("stack_leniency", value)
        ELSE IF StartsWith(line, "Mode") THEN IntField("mode", value)
        ELSE IF StartsWith(line, "LetterboxInBreaks")
            THEN BoolField("letterbox_in_breaks", value)
        ELSE IF StartsWith(line, "StoryFireInFront")
            THEN BoolField("story_fire_in_front", value)
        ELSE IF StartsWith(line, "UseSkinSprites") THEN BoolField("use_skin_sprites", value)
        ELSE IF StartsWith(line, "AlwaysShowPlayfield")
            THEN BoolField("always_show_playfield", value)
        ELSE IF StartsWith(line, "OverlayPosition") THEN Ret("overlay_position", value)
        ELSE IF StartsWith(line, "SkinPreference") THEN Ret("skin_preference", value)
        ELSE IF StartsWith(line, "EpilepsyWarning") THEN BoolField("epilepsy_warning", value)
        ELSE IF StartsWith(line, "CountdownOffset") THEN IntField("countdown_offset", value)
        ELSE IF StartsWith(line, "SpecialStyle") THEN BoolField("special_style", value)
        ELSE IF StartsWith(line, "WidescreenStoryboard")
            THEN BoolField("widescreen_storyboard", value)
        ELSE IF StartsWith(line, "SamplesMatchPlaybackRate")
            THEN BoolField("samples_match_playback_rate", value)
        ELSE Raise(UnsupportedLine("general", line))

_parse_editor_section_line(line) ==
    LET v == _parse_section_value_from_str(line)
        value == v.val
    IN  IF ~v.ok THEN Raise(IndexError)
        ELSE IF StartsWith(line, "Bookmarks") THEN IntListField("bookmarks", value)
        ELSE IF StartsWith(line, "DistanceSpacing")
            THEN FloatField("distance_spacing", value)
        ELSE IF StartsWith(line, "BeatDivisor") THEN IntField("beat_divisor", value)
        ELSE IF StartsWith(line, "GridSize") THEN IntField("grid_size", value)
        ELSE IF StartsWith(line, "TimelineZoom") THEN FloatField("timeline_zoom", value)
        ELSE Raise(UnsupportedLine("editor", line))

_parse_metadata_section_line(line) ==
    LET v == _parse_section_value_from_str(line)
        value == v.val
    IN  IF ~v.ok THEN Raise(IndexError)
        ELSE IF StartsWith(line, "Title:") THEN Ret("title", value)
        ELSE IF StartsWith(line, "TitleUnicode") THEN Ret("title_unicode", value)
        ELSE IF StartsWith(line, "Artist:") THEN Ret("artist", value)
        ELSE IF StartsWith(line, "ArtistUnicode") THEN Ret("artist_unicode", value)
        ELSE IF StartsWith(line, "Creator") THEN Ret("creator", value)
        ELSE IF StartsWith(line, "Version") THEN Ret("version", value)
        ELSE IF StartsWith(line, "Source") THEN Ret("source", value)
        ELSE IF StartsWith(line, "Tags") THEN Ret("tags", Split[value, ","])
        ELSE IF StartsWith(line, "BeatmapID") THEN IntField("beatmap_id", value)
        ELSE IF StartsWith(line, "BeatmapSetID") THEN IntField("beatmap_set_id", value)
        ELSE Raise(UnsupportedLine("metadata", line))

_parse_difficulty_section_line(line) ==
    LET v == _parse_section_value_from_str(line)
        value == v.val
    IN  IF ~v.ok THEN Raise(IndexError)
        ELSE IF StartsWith(line, "HPDrainRate") THEN FloatField("hp_drain_rate", value)
        ELSE IF StartsWith(line, "CircleSize") THEN FloatField("circle_size", value)
        ELSE IF StartsWith(line, "OverallDifficulty")
            THEN FloatField("overall_difficulty", value)
        ELSE IF StartsWith(line, "ApproachRate") THEN FloatField("approach_rate", value)
        ELSE IF StartsWith(line, "SliderMultiplier")
            THEN FloatField("slider_multiplier", value)
        ELSE IF StartsWith(line, "SliderTickRate")
            THEN FloatField("slider_tick_rate", value)
        ELSE Raise(UnsupportedLine("difficulty", line))

\* ------------------------------------------------------ version offsets

EARLY_VERSION_TIMING_OFFSET == 24

\* The offset given to version 5 too.
_add_offsets_upto5(time, version) ==
    IF version <= 5 THEN time + EARLY_VERSION_TIMING_OFFSET ELSE time

_add_offsets(time, version) ==
    IF version < 5 THEN time + EARLY_VERSION_TIMING_OFFSET ELSE time

\* ------------------------------------------------------- the Events handler

STORYBOARD_EVENTS == {"Sprite", "Animation", "Sample"}

\* values[i] with Python's index from 0; callers check i < len(values).
At(values, i) == values[i + 1]

\* The optional x_offset and y_offset of a background or video event. The
\* result is [err, event]: the keys it adds, or the ValueError of int().
EventOffsets(values) ==
    LET n == Len(values)
        x == IF n > 3 THEN PyInt[At(values, 3)] ELSE [ok |-> TRUE, val |-> 0]
        y == IF n > 4 THEN PyInt[At(values, 4)] ELSE [ok |-> TRUE, val |-> 0]
    IN  IF ~x.ok THEN [err |-> IntValueError(At(values, 3)), event |-> <<>>]
        ELSE IF ~y.ok THEN [err |-> IntValueError(At(values, 4)), event |-> <<>>]
        ELSE [err |-> NoError,
              event |-> (IF n > 3 THEN "x_offset" :> x.val ELSE <<>>)
                            @@ (IF n > 4 THEN "y_offset" :> y.val ELSE <<>>)]

BackgroundEvent(values) ==
    IF Len(values) < 3 THEN Raise(IndexError)
    ELSE LET off == EventOffsets(values)
         IN  IF off.err # NoError THEN Raise(off.err)
             ELSE Ret("background",
                      ("filename" :> StripChars(At(values, 2), "\"")) @@ off.event)

VideoEvent(values) ==
    IF Len(values) < 2 THEN Raise(IndexError)
    ELSE IF ~PyInt[At(values, 1)].ok THEN Raise(IntValueError(At(values, 1)))
    ELSE IF Len(values) < 3 THEN Raise(IndexError)
    ELSE LET off == EventOffsets(values)
         IN  IF off.err # NoError THEN Raise(off.err)
             ELSE Ret("videos",
                      ("start_time" :> PyInt[At(values, 1)].val)
                          @@ ("filename" :> StripChars(At(values, 2), "\""))
                          @@ off.event)

\* end_time = max(start_time, int(values[2]))
BreakEvent(values) ==
    IF Len(values) < 2 THEN Raise(IndexError)
    ELSE IF ~PyInt[At(values, 1)].ok THEN Raise(IntValueError(At(values, 1)))
    ELSE IF Len(values) < 3 THEN Raise(IndexError)
    ELSE IF ~PyInt[At(values, 2)].ok THEN Raise(IntValueError(At(values, 2)))
    ELSE LET start == PyInt[At(values, 1)].val
         IN  Ret("break_periods",
                 [start_time |-> start,
                  end_time |-> Max(start, PyInt[At(values, 2)].val)])

\* The test on the element name alone, without the one on the first character.
IsStoryboardLineByName(line, event_type) == event_type \in STORYBOARD_EVENTS

\* line[0] == " " or event_type in STORYBOARD_EVENTS
IsStoryboardLine(line, event_type) ==
    Ch(line, 1) = " " \/ event_type \in STORYBOARD_EVENTS

\* line is not blank: parse_file skips blank lines before it dispatches.
_parse_events_section_line(line) ==
    LET values == Split[line, ","]
        event_type == At(values, 0)
    IN  IF IsStoryboardLine(line, event_type)
        THEN Ret("storyboard_data", line)
        ELSE IF event_type = "0" THEN BackgroundEvent(values)
        ELSE IF event_type \in {"1", "Video"} THEN VideoEvent(values)
        ELSE IF event_type \in {"2", "Break"} THEN BreakEvent(values)
        ELSE Raise(UnsupportedLine("events", line))

\* ------------------------------------------------- the TimingPoints handler

\* k / r for an integer k and a rational r # 0.
IntOverRat(k, r) ==
    IF r.n > 0 THEN Rat(k * r.d, r.n) ELSE Rat(-(k * r.d), -r.n)

\* 100 / -beat_length if beat_length < 0 else 1
SpeedMultiplier(beat_length) ==
    IF beat_length.n < 0
    THEN IntOverRat(100, [n |-> -beat_length.n, d |-> beat_length.d])
    ELSE Rat(1, 1)

\* A bpm for every point with a beat length, tempo point or not.
BpmEntryAlways(timing_change, beat_length) ==
    IF timing_change \/ beat_length.n # 0
    THEN "bpm" :> IntOverRat(60000, beat_length)
    ELSE <<>>

\* if timing_change: timing_point["bpm"] = 60000 / timing_point["beat_length"]
\* The key is added only then.
BpmEntry(timing_change, beat_length) ==
    IF timing_change THEN "bpm" :> IntOverRat(60000, beat_length) ELSE <<>>

\* The integer fields 2..7 that the line has, in the order int() reads them.
TimingIntFields(values) == {i \in 2..7 : i < Len(values)}

\* Field i of the line as an optional integer: None when the line is short.
OptInt(values, i) ==
    IF Len(values) >= i + 1 THEN <<PyInt[At(values, i)].val>> ELSE <<>>

\* The handler returns the timing point as value; key is not used.
_parse_timing_points_section_line(line) ==
    LET values == Split[line, ","]
        n == Len(values)
        bad == {i \in TimingIntFields(values) : ~PyInt[At(values, i)].ok}
    IN  IF ~PyInt[At(values, 0)].ok THEN Raise(IntValueError(At(values, 0)))
        ELSE IF n < 2 THEN Raise(IndexError)
        ELSE IF ~PyFloat[At(values, 1)].ok THEN Raise(FloatValueError(At(values, 1)))
        ELSE IF bad # {}
            THEN Raise(IntValueError(At(values, CHOOSE i \in bad : \A j \in bad : i <= j)))
        ELSE
          LET beat_length == PyFloat[At(values, 1)].val
              timing_signature == IF n >= 3 THEN PyInt[At(values, 2)].val ELSE 4
              sample_set == OptInt(values, 3)
              sample_index == IF n >= 5 THEN PyInt[At(values, 4)].val ELSE 0
              sample_volume == OptInt(values, 5)
              timing_change == IF n >= 7 THEN PyInt[At(values, 6)].val # 0 ELSE TRUE
          IN  IF timing_change /\ beat_length.n = 0 THEN Raise(ZeroDivisionError)
              ELSE Ret("timing_points",
                       [time |-> PyInt[At(values, 0)].val,
                        beat_length |-> beat_length,
                        speed_multiplier |-> SpeedMultiplier(beat_length),
                        time_signature |-> timing_signature,
                        sample_set |-> sample_set,
                        sample_index |-> sample_index,
                        sample_volume |-> sample_volume,
                        timing_change |-> timing_change]
                       @@ (IF n >= 8 THEN "effects" :> PyInt[At(values, 7)].val
                           ELSE <<>>)
                       @@ BpmEntry(timing_change, beat_length))

\* ------------------------------------------------------- the enumerations

\* The members of each enumeration, name |-> value.
EnumMembers(cls) ==
    CASE cls = "Countdown" -> [NONE |-> 0, NORMAL |-> 1, HALF |-> 2, DOUBLE |-> 3]
      [] cls = "SampleSet" -> [NONE |-> 0, NORMAL |-> 1, SOFT |-> 2, DRUM |-> 3]
      [] cls = "OverlayPosition" ->
            [NOCHANGE |-> "NoChange", BELOW |-> "Below", ABOVE |-> "Above"]

\* Python objects handed to a conversion, tagged by type.
PInt(v) == [t |-> "int", v |-> v]

PStr(s) == [t |-> "str", v |-> s]

PMember(cls, name) == [t |-> "member", cls |-> cls, name |-> name]

\* An object that is neither an int, a str nor an enumeration member.
PNone == [t |-> "NoneType"]

\* isinstance(o, cls)
IsInstance(o, cls) == o.t = "member" /\ o.cls = cls

\* isinstance(o, int): Countdown is an IntEnum, so its members are ints too.
IsInt(o) == o.t = "int" \/ (o.t = "member" /\ o.cls = "Countdown")

\* str(o), as the error messages render it.
Repr(o) ==
    CASE o.t = "int" -> ToString(o.v)
      [] o.t = "str" -> o.v
      [] o.t = "member" -> o.cls \o "." \o o.name
      [] OTHER -> "None"

\* The lookup of Enum.__call__: the names of the members of cls equal to o.
\* An int (or an IntEnum member) equals the member with that value, a str
\* equals a member of a str-valued enumeration.
ByValue(cls, o) ==
    LET members == EnumMembers(cls)
    IN  IF IsInstance(o, cls) THEN {o.name}
        ELSE IF cls = "OverlayPosition"
            THEN {m \in DOMAIN members : o.t = "str" /\ members[m] = o.v}
        ELSE IF IsInt(o)
            THEN LET v == IF o.t = "int" THEN o.v ELSE EnumMembers(o.cls)[o.name]
                 IN  {m \in DOMAIN members : members[m] = v}
        ELSE {}

DoesNotExist(cls, o) ==
    [type |-> "ValueError", msg |-> cls \o " " \o Repr(o) \o " does not exist."]

\* One call of cls.from_type(o): it returns a member, raises, or makes the
\* nested call cls(arg). OverlayPosition.from_type has no int and no digit
\* branch.
from_type(cls, o) ==
    IF IsInstance(o, cls) THEN [kind |-> "return", name |-> o.name]
    ELSE IF cls # "OverlayPosition" /\ IsInt(o) THEN [kind |-> "call", arg |-> o]
    ELSE IF cls # "OverlayPosition" /\ o.t = "str" /\ IsDigit[o.v]
        THEN [kind |-> "call", arg |-> PInt(NatOf[o.v])]
    ELSE IF o.t = "str" /\ Upper(o.v) \in DOMAIN EnumMembers(cls)
        THEN [kind |-> "return", name |-> Upper(o.v)]
    ELSE [kind |-> "raise", err |-> DoesNotExist(cls, o)]

\* No result yet: the conversion is still running.
Running == [kind |-> "running"]

\* A nested call: the frame is pushed unless the stack is at the limit.
Push(stack, frame) ==
    IF Len(stack) >= RecursionLimit
    THEN [stack |-> <<>>, result |-> [kind |-> "raise", err |-> RecursionError]]
    ELSE [stack |-> Append(stack, frame), result |-> Running]

\* A return or a raise in the innermost frame ends the whole conversion:
\* from_type returns cls(o) as it is, _missing_ returns from_type's result as
\* it is, Enum.__call__ returns what _missing_ returned and re-raises what it
\* raised.
Finish(result) == [stack |-> <<>>, result |-> result]

\* One step of the innermost frame of a conversion to cls.
EnumStep(cls, stack) ==
    LET top == stack[Len(stack)]
    IN  IF top.fn = "__call__"
        THEN IF ByValue(cls, top.arg) # {}
             THEN Finish([kind |-> "return",
                          name |-> CHOOSE m \in ByValue(cls, top.arg) : TRUE])
             ELSE Push(stack, [fn |-> "_missing_", arg |-> top.arg])
        ELSE IF top.fn = "_missing_"
        THEN Push(stack, [fn |-> "from_type", arg |-> top.arg])
        ELSE LET r == from_type(cls, top.arg)
             IN  IF r.kind = "call"
                 THEN Push(stack, [fn |-> "__call__", arg |-> r.arg])
                 ELSE Finish(r)

\* The steps of a conversion to its result. The step is taken once and bound
\* as next, so that the nested steps read a value and not the whole history.
RECURSIVE RunEnum(_, _)
RunEnum(cls, stack) ==
    CHOOSE result \in
        {IF next.result = Running THEN RunEnum(cls, next.stack) ELSE next.result :
            next \in {EnumStep(cls, stack)}} : TRUE

\* cls(o), construction by value: the result of the whole conversion.
EnumByValue(cls, o) == RunEnum(cls, <<[fn |-> "__call__", arg |-> o]>>)

\* ------------------------------------------------------------ parse_file

\* not line.strip()
IsBlank(line) == Strip(line) = ""

\* line.startswith("[") and line.endswith("]")
IsSectionHeader(line) == StartsWith(line, "[") /\ EndsWith(line, "]")

\* The parser's accumulators before the first line. section is None (<<>>)
\* or <<name>>; timing_points is the list held under
\* timing_points["timing_points"].
StartState(version) ==
    [beatmap |-> ("file_version" :> version),
     section |-> <<>>,
     general |-> <<>>, editor |-> <<>>, metadata |-> <<>>, difficulty |-> <<>>,
     events |-> <<>>,
     timing_points |-> <<>>,
     err |-> NoError]

\* dict[key] = value after a handler returned (key, value); its error when
\* it raised.
Store(st, field, r) ==
    IF r.err # NoError THEN [st EXCEPT !.err = r.err]
    ELSE [st EXCEPT ![field] = (r.key :> r.value) @@ @]

\* The events branch of the loop: comments are skipped, the background is
\* stored under its key, every other event is appended to the list under its
\* key, a break period after its two times got the version offset.
EventsBranch(st, line) ==
    LET r == _parse_events_section_line(line)
        version == st.beatmap["file_version"]
        events_value ==
            IF r.key = "break_periods"
            THEN [start_time |-> _add_offsets(r.value.start_time, version),
                  end_time |-> _add_offsets(r.value.end_time, version)]
            ELSE r.value
        old == IF r.key \in DOMAIN st.events THEN st.events[r.key] ELSE <<>>
    IN  IF StartsWith(line, "//") THEN st
        ELSE IF r.err # NoError THEN [st EXCEPT !.err = r.err]
        ELSE IF r.key = "background"
            THEN [st EXCEPT !.events = (r.key :> r.value) @@ @]
        ELSE [st EXCEPT !.events = (r.key :> Append(old, events_value)) @@ @]

\* A point equal to one already in the list is not added again.
AppendPointOnce(points, point) ==
    IF \E i \in 1..Len(points) : points[i] = point THEN points
    ELSE Append(points, point)

\* timing_points["timing_points"].append(timing_point_value)
AppendPoint(points, point) == Append(points, point)

\* The timingpoints branch: the point is appended with its time offset.
TimingPointsBranch(st, line) ==
    LET r == _parse_timing_points_section_line(line)
        version == st.beatmap["file_version"]
    IN  IF r.err # NoError THEN [st EXCEPT !.err = r.err]
        ELSE [st EXCEPT !.timing_points =
                  AppendPoint(@, [r.value EXCEPT !.time = _add_offsets(@, version)])]

\* The else branch parse_file left commented out, taken.
UnknownSectionRaises(st, line) ==
    [st EXCEPT !.err = [type |-> "ValueError", msg |-> "Unsupported section"]]

\* No branch of the loop matches the section: the line is dropped. The else
\* branch that would raise is commented out.
UnknownSection(st, line) == st

\* One iteration of the loop over the lines after the header.
LoopBody(st, line) ==
    IF IsBlank(line) THEN st
    ELSE IF IsSectionHeader(line)
        THEN [st EXCEPT !.section = <<Lower(StripChars(line, "[]"))>>]
    ELSE IF st.section = <<"general">>
        THEN Store(st, "general", _parse_general_section_line(line))
    ELSE IF st.section = <<"editor">>
        THEN Store(st, "editor", _parse_editor_section_line(line))
    ELSE IF st.section = <<"metadata">>
        THEN Store(st, "metadata", _parse_metadata_section_line(line))
    ELSE IF st.section = <<"difficulty">>
        THEN Store(st, "difficulty", _parse_difficulty_section_line(line))
    ELSE IF st.section = <<"events">> THEN EventsBranch(st, line)
    ELSE IF st.section = <<"timingpoints">> THEN TimingPointsBranch(st, line)
    ELSE UnknownSection(st, line)

\* A first line with no "v" read as the current format version.
ParseHeaderDefault(first) ==
    IF first = <<>> THEN [err |-> IndexError, version |-> 0]
    ELSE LET parts == Split[first[1], "v"]
         IN  IF Len(parts) < 2 THEN [err |-> NoError, version |-> 14]
             ELSE IF ~PyInt[At(parts, 1)].ok
                 THEN [err |-> IntValueError(At(parts, 1)), version |-> 0]
             ELSE [err |-> NoError, version |-> PyInt[At(parts, 1)].val]

\* int(file_header.split("v")[1]) on the first line of the buffer; first is
\* <<>> for an empty buffer, whose lines.pop(0) raises IndexError.
ParseHeader(first) ==
    IF first = <<>> THEN [err |-> IndexError, version |-> 0]
    ELSE LET parts == Split[first[1], "v"]
         IN  IF Len(parts) < 2 THEN [err |-> IndexError, version |-> 0]
             ELSE IF ~PyInt[At(parts, 1)].ok
                 THEN [err |-> IntValueError(At(parts, 1)), version |-> 0]
             ELSE [err |-> NoError, version |-> PyInt[At(parts, 1)].val]

\* ------------------------------------------------------- the document model

GeneralRequired ==
    {"audio_filename", "audio_lead_in", "preview_time", "countdown", "sample_set",
     "stack_leniency", "mode", "letterbox_in_breaks"}

EditorRequired == {"distance_spacing", "beat_divisor", "grid_size", "timeline_zoom"}

MetadataRequired == {"title", "artist", "creator", "version"}

DifficultyRequired ==
    {"hp_drain_rate", "circle_size", "overall_difficulty", "approach_rate",
     "slider_multiplier", "slider_tick_rate"}

ValidationError(msg) == [type |-> "ValidationError", msg |-> msg]

\* The game's play modes: osu!, taiko, catch, mania.
GamemodeValues == 0..3

\* The conversions of the enumeration fields of the General section, field
\* name |-> result; overlay_position only when the file gave it.
GeneralEnums(general) ==
    ("countdown" :> EnumByValue("Countdown", PInt(general["countdown"])))
        @@ ("sample_set" :> EnumByValue("SampleSet", PStr(general["sample_set"])))
        @@ (IF "overlay_position" \in DOMAIN general
            THEN "overlay_position" :>
                     EnumByValue("OverlayPosition", PStr(general["overlay_position"]))
            ELSE <<>>)

\* GeneralSection(**general): the fields as given, the enumeration fields
\* replaced by the name of their member. A field the file did not give stays
\* outside the domain (None).
GeneralSection(general) ==
    LET enums == GeneralEnums(general)
    IN  [k \in DOMAIN general |->
            IF k \in DOMAIN enums THEN enums[k].name ELSE general[k]]

\* The validator that runs after construction: preview_time gets the version
\* offset when it is truthy and not -1.
_apply_offsets(self) ==
    IF self.general["preview_time"] # 0 /\ self.general["preview_time"] # -1
    THEN [self EXCEPT !.general["preview_time"] = _add_offsets(@, self.file_version)]
    ELSE self

\* What the document keeps of the events dict and of the timing-point list
\* that parse_file hands to its constructor.
DocumentExtras(events, timing_points) ==
    [events |-> events, timing_points |-> timing_points]

\* BeatmapFile(**beatmap): [err, doc]. A missing required field or an
\* enumeration value that does not convert fails the construction.
BeatmapFile(st) ==
    LET missing ==
            \/ ~(GeneralRequired \subseteq DOMAIN st.general)
            \/ ~(EditorRequired \subseteq DOMAIN st.editor)
            \/ ~(MetadataRequired \subseteq DOMAIN st.metadata)
            \/ ~(DifficultyRequired \subseteq DOMAIN st.difficulty)
        enums == GeneralEnums(st.general)
        raised == {k \in DOMAIN enums : enums[k].kind = "raise"}
        extras == DocumentExtras(st.events, st.timing_points)
    IN  IF missing THEN [err |-> ValidationError("Field required"), doc |-> <<>>]
        ELSE IF \E k \in raised : enums[k].err.type = "RecursionError"
            THEN [err |-> RecursionError, doc |-> <<>>]
        ELSE IF raised # {}
            THEN [err |-> ValidationError((CHOOSE k \in raised : TRUE)), doc |-> <<>>]
        ELSE IF st.general["mode"] \notin GamemodeValues
            THEN [err |-> ValidationError("mode"), doc |-> <<>>]
        ELSE [err |-> NoError,
              doc |-> <<_apply_offsets(
                          [file_version |-> st.beatmap["file_version"],
                           general |-> GeneralSection(st.general),
                           editor |-> st.editor,
                           metadata |-> st.metadata,
                           difficulty |-> st.difficulty,
                           events |-> extras.events,
                           timing_points |-> extras.timing_points])>>]

\* ------------------------------------------------------------- the inputs

\* First lines of the buffer: <<>> is the empty buffer.
HeaderChoices ==
    {<<>>,
     <<"osu file format v14">>,
     <<"osu file format v5">>,
     <<"osu file format v4">>,
     <<"osu file format">>,
     <<"osu file format vX">>,
     <<"foo v14">>,
     <<"">>}

\* A complete file after its header: every required field of the four
\* Key: value sections, a line before the first section header, blank lines,
\* events, a timing point, and a section the parser does not know.
BaseFile ==
    <<"",
      "Foo: bar",
      "[General]",
      "AudioFilename: song.mp3",
      "AudioLeadIn: 0",
      "PreviewTime: 1000",
      "Countdown: 1",
      "SampleSet: Normal",
      "StackLeniency: 0.7",
      "Mode: 0",
      "LetterboxInBreaks: 0",
      "  ",
      "[EDITOR]",
      "DistanceSpacing: 1.2",
      "BeatDivisor: 4",
      "GridSize: 4",
      "TimelineZoom: 1",
      "[Metadata]",
      "Title:Song",
      "Artist:Band",
      "Creator:me",
      "Version:Hard",
      "[Difficulty]",
      "HPDrainRate:5",
      "CircleSize:4",
      "OverallDifficulty:7",
      "ApproachRate:9",
      "SliderMultiplier:1.4",
      "SliderTickRate:1",
      "[Events]",
      "//Background and Video events",
      "0,0,\"bg.jpg\",0,0",
      "2,1000,2000",
      "Sprite,Background,Centre,\"sb.png\",320,240",
      " F,0,0,500,1",
      "[TimingPoints]",
      "0,500,4,1,0,100,1,0",
      "1000,-50,4,1,0,100,0,0",
      "[Colours]",
      "Combo1 : 255,192,0">>

\* The fixed part of the input: the complete file, or nothing.
Bases == {BaseFile, <<>>}

SectionHeaders ==
    {"[General]", "[Editor]", "[Metadata]", "[Difficulty]", "[Events]",
     "[TimingPoints]", "[HitObjects]"}

GeneralLines ==
    {"PreviewTime: 0", "PreviewTime: -1", "PreviewTime: -5", "PreviewTime: 250",
     "Countdown: 2", "CountdownOffset: 3", "Countdown: 5",
     "SampleSet: soft", "OverlayPosition: Below", "AudioLeadIn: abc",
     "Foo: bar", "Foo", "ModeX: 1"}

EditorLines == {"Bookmarks: 100,200", "GridSize: 8", "Foo: bar", "Foo", "Grid: 8"}

MetadataLines ==
    {"Title:New", "TitleUnicode:Uni", "Artist:Duo", "ArtistUnicode:Deux",
     "Tags:a b,c", "BeatmapID:12", "BeatmapSetID:34", "Foo: bar", "Title"}

DifficultyLines == {"CircleSize:3.5", "ApproachRate:x", "Foo: bar", "Foo"}

EventsLines ==
    {"//Break Periods", "0,0,\"new.png\"", "Video,100,\"intro.avi\"",
     "2,100,200", "2,300,250", "Break,50,60",
     " M,0,100,200,320,240", "\tM,0,100,200,320,240",
     "Sample,100,0,\"a.wav\",70", "Animation,Fail,Centre,\"b.png\",0,0,2,40",
     "3,100,1,255,255,255", "[TimingPoints]"}

TimingPointLines ==
    {"500,333.33,4,2,1,60,1,0", "100,500", "100,-50,4,1,0,80,0,0", "100,-100",
     "50,250,4,1,0,80,0", "100,0,4,1,0,80,1,0", "100,0,4,1,0,80,0,0",
     "0,500,4,1,0,100,1,0", "abc", "100", "[Events]"}

\* Lines under a section the parser does not know, or before any section.
OtherLines == {"Combo2 : 0,0,255", "256,192,1000,1,0", "PreviewTime: 5", "Foo"}

\* The lines the model may append to the file while the current section is
\* section.
TailLines(section) ==
    IF section = <<"general">> THEN GeneralLines
    ELSE IF section = <<"editor">> THEN EditorLines
    ELSE IF section = <<"metadata">> THEN MetadataLines
    ELSE IF section = <<"difficulty">> THEN DifficultyLines
    ELSE IF section = <<"events">> THEN EventsLines
    ELSE IF section = <<"timingpoints">> THEN TimingPointLines
    ELSE SectionHeaders \cup OtherLines

\* The objects handed to an enumeration conversion.
EnumClasses == {"Countdown", "SampleSet"}

EnumQueries ==
    {PInt(v) : v \in -1..5}
        \cup {PStr(x) : x \in {"0", "3", "4", "12", "-1", "", " 1", "normal",
                                "NORMAL", "Half", "soft", "Drum", "none", "abc"}}
        \cup {PMember(c, m) : c \in EnumClasses, m \in {"NONE", "NORMAL"}}
        \cup {PNone}

\* ------------------------------------------------------------- the state

VARIABLES
    pc,             \* where parse_file is: start, loop, done, failed
    file_header,    \* the first line of the buffer (<<>>: not read or none)
    rest,           \* the lines of the fixed part not yet iterated
    ntail,          \* how many lines followed the fixed part so far
    lines,          \* the lines the loop has iterated, in order
    beatmap, section, general, editor, metadata, difficulty, events,
    timing_points,  \* parse_file's locals
    err,            \* the exception parse_file raised, NoError if none
    doc,            \* the BeatmapFile returned: <<>> or <<document>>
    ecls,           \* the enumeration a conversion converts to
    stack,          \* the frames of the conversion, innermost last
    eresult,        \* the result of the conversion
    equery,         \* the object the conversion was handed
    kept            \* the locals parse_file would hold had the file not held
                    \* the lines it ignores

parse_vars ==
    <<pc, file_header, rest, ntail, lines, beatmap, section, general, editor, metadata,
      difficulty, events, timing_points, err, doc, kept>>

enum_vars == <<ecls, stack, eresult, equery>>

vars == <<parse_vars, enum_vars>>

Init ==
    /\ pc = "start"
    /\ file_header = <<>>
    /\ rest \in Bases
    /\ ntail = 0
    /\ lines = <<>>
    /\ beatmap = <<>>
    /\ section = <<>>
    /\ general = <<>>
    /\ editor = <<>>
    /\ metadata = <<>>
    /\ difficulty = <<>>
    /\ events = <<>>
    /\ timing_points = <<>>
    /\ err = NoError
    /\ doc = <<>>
    /\ ecls = ""
    /\ stack = <<>>
    /\ eresult = Running
    /\ equery = PNone
    /\ kept = <<>>

\* parse_file's locals as one record.
Locals ==
    [beatmap |-> beatmap, section |-> section, general |-> general,
     editor |-> editor, metadata |-> metadata, difficulty |-> difficulty,
     events |-> events, timing_points |-> timing_points, err |-> err]

SetLocals(st) ==
    /\ beatmap' = st.beatmap
    /\ section' = st.section
    /\ general' = st.general
    /\ editor' = st.editor
    /\ metadata' = st.metadata
    /\ difficulty' = st.difficulty
    /\ events' = st.events
    /\ timing_points' = st.timing_points
    /\ err' = st.err

\* buffer = file.read(); lines = buffer.splitlines(); the header is popped
\* and its version read. A header that does not parse ends parse_file.
ReadHeader ==
    /\ pc = "start"
    /\ stack = <<>> /\ eresult = Running
    /\ \E first \in HeaderChoices :
          LET h == ParseHeader(first)
          IN  /\ file_header' = first
              /\ err' = h.err
              /\ IF h.err = NoError
                 THEN /\ pc' = "loop"
                      /\ beatmap' = ("file_version" :> h.version)
                      /\ kept' = StartState(h.version)
                 ELSE /\ pc' = "failed"
                      /\ UNCHANGED <<beatmap, kept>>
    /\ UNCHANGED <<rest, ntail, lines, section, general, editor, metadata,
                   difficulty, events, timing_points, doc, enum_vars>>

\* The sections parse_file has a handler for.
KnownSections ==
    {"general", "editor", "metadata", "difficulty", "events", "timingpoints"}

\* A line that is neither blank nor a section header, met before the first
\* section header or under a section name that is none of the known ones.
Ignored(sec, line) ==
    /\ ~IsBlank(line)
    /\ ~IsSectionHeader(line)
    /\ \A name \in KnownSections : sec # <<name>>

\* One iteration of "for line in lines": the next line of the fixed part, or
\* one more line after it. An exception in the body ends parse_file.
LoopLine ==
    /\ pc = "loop"
    /\ rest # <<>> \/ ntail < MaxTail
    /\ \E line \in (IF rest # <<>> THEN {Head(rest)} ELSE TailLines(section)) :
          \E st \in {LoopBody(Locals, line)} :
              /\ SetLocals(st)
              /\ lines' = Append(lines, line)
              /\ kept' = IF Ignored(kept.section, line) THEN kept
                         ELSE LoopBody(kept, line)
              /\ pc' = IF st.err = NoError THEN "loop" ELSE "failed"
    /\ rest' = IF rest # <<>> THEN Tail(rest) ELSE rest
    /\ ntail' = IF rest # <<>> THEN ntail ELSE ntail + 1
    /\ UNCHANGED <<file_header, doc, enum_vars>>

\* The loop is over: return BeatmapFile(**beatmap).
Construct ==
    /\ pc = "loop"
    /\ rest = <<>>
    /\ \E r \in {BeatmapFile(Locals)} :
           /\ doc' = r.doc
           /\ err' = r.err
           /\ pc' = IF r.err = NoError THEN "done" ELSE "failed"
    /\ UNCHANGED <<file_header, rest, ntail, lines, beatmap, section, general,
                   editor, metadata, difficulty, events, timing_points, kept,
                   enum_vars>>

Next == ReadHeader \/ LoopLine \/ Construct

Spec == Init /\ [][Next]_vars

\* ------------------------------------------- an enumeration conversion alone

\* Countdown.from_type(o), SampleSet.from_type(o), or construction by value
\* Countdown(o), SampleSet(o), for one object o.
Invoke ==
    /\ pc = "start" /\ stack = <<>> /\ eresult = Running /\ ecls = ""
    /\ \E cls \in EnumClasses, o \in EnumQueries, fn \in {"from_type", "__call__"} :
          /\ ecls' = cls
          /\ equery' = o
          /\ stack' = <<[fn |-> fn, arg |-> o]>>
    /\ UNCHANGED <<eresult, parse_vars>>

EnumAdvance ==
    LET next == EnumStep(ecls, stack)
    IN  /\ stack' = next.stack
        /\ eresult' = next.result
        /\ UNCHANGED <<ecls, equery, parse_vars>>

\* Enum.__call__: the lookup by value, _missing_ when it finds nothing.
EnumCall ==
    /\ stack # <<>> /\ stack[Len(stack)].fn = "__call__"
    /\ EnumAdvance

\* _missing_(query): return cls.from_type(query).
Missing ==
    /\ stack # <<>> /\ stack[Len(stack)].fn = "_missing_"
    /\ EnumAdvance

\* from_type(o)
FromType ==
    /\ stack # <<>> /\ stack[Len(stack)].fn = "from_type"
    /\ EnumAdvance

NextEnum == Invoke \/ EnumCall \/ Missing \/ FromType

InitEnum == Init /\ rest = <<>>

SpecEnum == InitEnum /\ [][NextEnum]_vars

\* ------------------------------------------------------------ the properties

Last(s) == s[Len(s)]

\* A step of the loop: one more line was iterated. NewLine is that line.
Consumed == pc = "loop" /\ Len(lines') = Len(lines) + 1

NewLine == lines'[Len(lines')]

\* A line the loop hands to the handler of the current section.
Dispatched(line) == ~IsBlank(line) /\ ~IsSectionHeader(line)

\* The offset the format version of the file asks for.
VersionOffset == IF beatmap["file_version"] < 5 THEN 24 ELSE 0

Has(seq, x) == \E i \in 1..Len(seq) : seq[i] = x

\* C1: the returned document has preview_time = p + 24 for a format version
\* below 5 and = p from version 5 on, for every raw p other than -1, zero
\* included; -1 stays -1.
C1_PreviewTimeOffset ==
    pc = "done" =>
        LET p == general["preview_time"]
        IN  doc[1].general["preview_time"] =
                IF p = -1 THEN -1
                ELSE IF beatmap["file_version"] < 5 THEN p + 24
                ELSE p

\* The keys each Key: value section knows.
KnownKeys(sec) ==
    CASE sec = "general" ->
            {"AudioFilename", "AudioLeadIn", "AudioHash", "PreviewTime",
             "Countdown", "SampleSet", "StackLeniency", "Mode",
             "LetterboxInBreaks", "StoryFireInFront", "UseSkinSprites",
             "AlwaysShowPlayfield", "OverlayPosition", "SkinPreference",
             "EpilepsyWarning", "CountdownOffset", "SpecialStyle",
             "WidescreenStoryboard", "SamplesMatchPlaybackRate"}
      [] sec = "editor" ->
            {"Bookmarks", "DistanceSpacing", "BeatDivisor", "GridSize",
             "TimelineZoom"}
      [] sec = "metadata" ->
            {"Title", "TitleUnicode", "Artist", "ArtistUnicode", "Creator",
             "Version", "Source", "Tags", "BeatmapID", "BeatmapSetID"}
      [] sec = "difficulty" ->
            {"HPDrainRate", "CircleSize", "OverallDifficulty", "ApproachRate",
             "SliderMultiplier", "SliderTickRate"}

KeyValueSections == {"general", "editor", "metadata", "difficulty"}

\* The line starts with one of the section's known keys.
KeyRecognised(sec, line) == \E k \in KnownKeys(sec) : StartsWith(line, k)

\* C2: in the General, Editor, Metadata and Difficulty sections a line whose
\* key is none of the section's keys, a line with no colon included, fails
\* the parse with the unsupported-line error that carries the raw line, and
\* no document is returned.
C2_UnknownKeyFails ==
    [][(/\ Consumed
        /\ section # <<>>
        /\ section[1] \in KeyValueSections
        /\ Dispatched(NewLine)
        /\ ~KeyRecognised(section[1], NewLine))
       => (/\ pc' = "failed"
           /\ err' = UnsupportedLine(section[1], NewLine)
           /\ doc' = <<>>)]_vars

\* The break periods stored so far.
BreakPeriods(ev) == IF "break_periods" \in DOMAIN ev THEN ev["break_periods"] ELSE <<>>

IsBreakLine(line) == Split[line, ","][1] \in {"2", "Break"}

\* C3: a break line stores start = raw start + off and end =
\* max(raw start, raw end) + off, a timing-point line stores time = raw time
\* + off, with off = 24 below format version 5 and 0 from it on; the returned
\* document holds the stored values.
C3_OffsetsAndClamp ==
    [][/\ (Consumed /\ pc' = "loop" /\ Dispatched(NewLine)
              /\ section = <<"events">> /\ IsBreakLine(NewLine))
          => LET f == Split[NewLine, ","]
                 rs == PyInt[f[2]].val
                 re == PyInt[f[3]].val
             IN  /\ BreakPeriods(events') =
                        Append(BreakPeriods(events),
                               [start_time |-> rs + VersionOffset,
                                end_time |-> Max(rs, re) + VersionOffset])
                 /\ Last(BreakPeriods(events')).end_time
                        >= Last(BreakPeriods(events')).start_time
       /\ (Consumed /\ pc' = "loop" /\ Dispatched(NewLine)
              /\ section = <<"timingpoints">>)
          => /\ Len(timing_points') = Len(timing_points) + 1
             /\ Last(timing_points').time =
                    PyInt[Split[NewLine, ","][1]].val + VersionOffset
       /\ pc' = "done"
          => /\ BreakPeriods(doc'[1].events) = BreakPeriods(events)
             /\ \A i \in 1..Len(timing_points) :
                    doc'[1].timing_points[i].time = timing_points[i].time]_vars

\* A version 4 file returned with a clamped break 300..250 and a timing
\* point at raw time 0.
C3_Witness ==
    /\ pc = "done"
    /\ doc[1].file_version = 4
    /\ Has(lines, "2,300,250")
    /\ Has(BreakPeriods(doc[1].events), [start_time |-> 324, end_time |-> 324])
    /\ doc[1].timing_points[1].time = 24

\* C4: a timing point has a bpm only when its timing_change flag is true; a
\* point whose field 7 is 0 has none, and a point with timing_change true
\* and a positive beat length has bpm = 60000 / beat_length.
C4_BpmOnlyOnTimingChange ==
    [][/\ \A i \in 1..Len(timing_points') :
              LET tp == timing_points'[i]
              IN  /\ "bpm" \in DOMAIN tp => tp.timing_change
                  /\ (tp.timing_change /\ tp.beat_length.n > 0)
                     => /\ "bpm" \in DOMAIN tp
                        /\ tp.bpm = Rat(60000 * tp.beat_length.d, tp.beat_length.n)
       /\ (Consumed /\ pc' = "loop" /\ Dispatched(NewLine)
              /\ section = <<"timingpoints">>)
          => LET f == Split[NewLine, ","]
                 tp == Last(timing_points')
             IN  /\ (Len(f) >= 7 /\ PyInt[f[7]].val = 0)
                        => (~tp.timing_change /\ "bpm" \notin DOMAIN tp)
                 /\ (Len(f) < 7 \/ PyInt[f[7]].val # 0) => tp.timing_change]_vars

\* A returned file with an inherited point that has no bpm, a tempo point of
\* beat length 500 with bpm 120, and one whose bpm is not a whole number.
C4_Witness ==
    /\ pc = "done"
    /\ \E i, j, k \in 1..Len(timing_points) :
          /\ ~timing_points[i].timing_change
          /\ "bpm" \notin DOMAIN timing_points[i]
          /\ timing_points[j].timing_change
          /\ timing_points[j].bpm = [n |-> 120, d |-> 1]
          /\ timing_points[k].timing_change
          /\ timing_points[k].bpm.d # 1

\* C5: a line before the first section header, or under a section name that
\* is none of the six known ones, raises nothing and changes nothing: the
\* locals, the returned document and the error are those of the same input
\* without these lines.
C5_IgnoredLinesChangeNothing ==
    /\ pc = "loop" => Locals = kept
    /\ pc = "done" => (doc # <<>> /\ doc = BeatmapFile(kept).doc)
    /\ (pc = "failed" /\ kept # <<>>)
       => err = (IF kept.err # NoError THEN kept.err ELSE BeatmapFile(kept).err)

\* A returned file that had a line before its first section header and, under
\* [Colours], a line that would have set the preview time under [General].
C5_Witness ==
    /\ pc = "done"
    /\ lines[2] = "Foo: bar"
    /\ Has(lines, "PreviewTime: 5")
    /\ general["preview_time"] = 1000

\* C6: the timing-point list grows by exactly the point of each timing-point
\* line, at its end, and by nothing else; the returned document holds the
\* list as it is, in file order.
C6_TimingPointsInFileOrder ==
    [][/\ IF Consumed /\ pc' = "loop" /\ Dispatched(NewLine)
               /\ section = <<"timingpoints">>
          THEN /\ Len(timing_points') = Len(timing_points) + 1
               /\ SubSeq(timing_points', 1, Len(timing_points)) = timing_points
               /\ Last(timing_points').time =
                      PyInt[Split[NewLine, ","][1]].val + VersionOffset
          ELSE timing_points' = timing_points
       /\ pc' = "done" => doc'[1].timing_points = timing_points]_vars

\* A returned file whose third point repeats the time of the first and comes
\* after a later one.
C6_Witness ==
    /\ pc = "done"
    /\ Len(doc[1].timing_points) = 3
    /\ doc[1].timing_points[3] = doc[1].timing_points[1]
    /\ doc[1].timing_points[3].time < doc[1].timing_points[2].time

\* The first line has the form "osu file format v" and an integer.
WellFormedHeader(h) ==
    /\ h # <<>>
    /\ StartsWith(h[1], "osu file format v")
    /\ PyInt[SubSeq(h[1], Len("osu file format v") + 1, Len(h[1]))].ok

\* C7 as stated: every first line that is not "osu file format v<integer>"
\* fails the parse with no document, text before a v<integer> ending
\* included; a first line of that form gives its integer as file_version.
C7_HeaderMustMatch ==
    pc # "start" =>
        IF WellFormedHeader(file_header)
        THEN beatmap["file_version"] =
                 PyInt[SubSeq(file_header[1], Len("osu file format v") + 1,
                              Len(file_header[1]))].val
        ELSE pc = "failed" /\ doc = <<>>

\* The text between the first "v" of the line and the next "v" or the end.
AfterFirstV(s) ==
    LET i == IndexOf[s, "v", 1]
        j == IndexOf[s, "v", i + 1]
    IN  SubSeq(s, i + 1, IF j = 0 THEN Len(s) ELSE j - 1)

\* C7 amended: the parse fails at the header, with no document and no line
\* iterated, when the buffer has no first line, when the first line has no
\* "v", or when the text after its first "v" is not an integer; otherwise
\* file_version is that integer, whatever precedes the "v".
C7_HeaderVersion ==
    pc # "start" =>
        IF \/ file_header = <<>>
           \/ IndexOf[file_header[1], "v", 1] = 0
           \/ ~PyInt[AfterFirstV(file_header[1])].ok
        THEN pc = "failed" /\ doc = <<>> /\ lines = <<>> /\ err # NoError
        ELSE /\ beatmap["file_version"] = PyInt[AfterFirstV(file_header[1])].val
             /\ pc = "done" => doc[1].file_version = beatmap["file_version"]

\* A file whose first line is "foo v14", returned with version 14.
C7_Witness ==
    /\ pc = "done"
    /\ file_header = <<"foo v14">>
    /\ doc[1].file_version = 14

\* The integer an object is, if it is one: an int, or a member of the
\* integer enumeration Countdown.
IntValue(o) ==
    IF o.t = "int" THEN <<o.v>>
    ELSE IF o.t = "member" /\ o.cls = "Countdown"
        THEN <<EnumMembers("Countdown")[o.name]>>
    ELSE <<>>

\* The member names the claim has the conversion of o to cls return.
Convertible(cls, o) ==
    LET members == EnumMembers(cls)
    IN  IF o.t = "member" /\ o.cls = cls THEN {o.name}
        ELSE IF IntValue(o) # <<>>
            THEN {m \in DOMAIN members : members[m] = IntValue(o)[1]}
        ELSE IF o.t = "str"
            THEN {m \in DOMAIN members :
                      m = Upper(o.v) \/ (IsDigit[o.v] /\ members[m] = NatOf[o.v])}
        ELSE {}

\* C8: a conversion to Countdown or SampleSet ends, with the member for a
\* member, an ordinal, a member name in any case or an ordinal in digits, and
\* for every other object with the error that names the enumeration and the
\* object.
C8_ConversionTerminates ==
    eresult # Running =>
        IF Convertible(ecls, equery) # {}
        THEN eresult.kind = "return" /\ eresult.name \in Convertible(ecls, equery)
        ELSE eresult = [kind |-> "raise", err |-> DoesNotExist(ecls, equery)]

\* The field each key belongs to.
FieldOf(key) ==
    CASE key = "AudioFilename" -> "audio_filename"
      [] key = "AudioLeadIn" -> "audio_lead_in"
      [] key = "PreviewTime" -> "preview_time"
      [] key = "Countdown" -> "countdown"
      [] key = "CountdownOffset" -> "countdown_offset"
      [] key = "SampleSet" -> "sample_set"
      [] key = "StackLeniency" -> "stack_leniency"
      [] key = "Mode" -> "mode"
      [] key = "LetterboxInBreaks" -> "letterbox_in_breaks"
      [] key = "OverlayPosition" -> "overlay_position"
      [] key = "Bookmarks" -> "bookmarks"
      [] key = "DistanceSpacing" -> "distance_spacing"
      [] key = "BeatDivisor" -> "beat_divisor"
      [] key = "GridSize" -> "grid_size"
      [] key = "TimelineZoom" -> "timeline_zoom"
      [] key = "Title" -> "title"
      [] key = "TitleUnicode" -> "title_unicode"
      [] key = "Artist" -> "artist"
      [] key = "ArtistUnicode" -> "artist_unicode"
      [] key = "Creator" -> "creator"
      [] key = "Version" -> "version"
      [] key = "Tags" -> "tags"
      [] key = "BeatmapID" -> "beatmap_id"
      [] key = "BeatmapSetID" -> "beatmap_set_id"
      [] key = "HPDrainRate" -> "hp_drain_rate"
      [] key = "CircleSize" -> "circle_size"
      [] key = "OverallDifficulty" -> "overall_difficulty"
      [] key = "ApproachRate" -> "approach_rate"
      [] key = "SliderMultiplier" -> "slider_multiplier"
      [] key = "SliderTickRate" -> "slider_tick_rate"
      [] OTHER -> ""

\* The dict parse_file fills for a section.
SectionDict(sec, st) ==
    CASE sec = "general" -> st.general
      [] sec = "editor" -> st.editor
      [] sec = "metadata" -> st.metadata
      [] sec = "difficulty" -> st.difficulty

\* The locals after the step.
LocalsAfter ==
    [general |-> general', editor |-> editor', metadata |-> metadata',
     difficulty |-> difficulty']

\* C9: a line K: v with K a known key of its section sets the field of K and
\* no other: every other field keeps its value, also when K has another key
\* as a prefix (CountdownOffset after Countdown).
C9_KeySetsOnlyItsField ==
    [][(/\ Consumed /\ pc' = "loop"
        /\ section # <<>>
        /\ section[1] \in KeyValueSections
        /\ Dispatched(NewLine)
        /\ SplitOnce[NewLine, ":"][1] \in KnownKeys(section[1]))
       => LET field == FieldOf(SplitOnce[NewLine, ":"][1])
              before == SectionDict(section[1], Locals)
              after == SectionDict(section[1], LocalsAfter)
          IN  /\ field \in DOMAIN after
              /\ DOMAIN after = DOMAIN before \cup {field}
              /\ \A k \in DOMAIN before \ {field} : after[k] = before[k]]_vars

\* The storyboard lines stored so far.
StoryboardData(ev) ==
    IF "storyboard_data" \in DOMAIN ev THEN ev["storyboard_data"] ELSE <<>>

\* C10 as stated: in the Events section a line that starts with a space or a
\* tab, or whose first token is Sprite, Animation or Sample, is appended
\* unchanged to the storyboard data and raises nothing.
C10_SpaceOrTabIsStoryboard ==
    [][(/\ Consumed
        /\ section = <<"events">>
        /\ Dispatched(NewLine)
        /\ \/ Ch(NewLine, 1) \in {" ", "\t"}
           \/ Split[NewLine, ","][1] \in {"Sprite", "Animation", "Sample"})
       => (/\ pc' = "loop"
           /\ StoryboardData(events') = Append(StoryboardData(events), NewLine))]_vars

\* C10 amended: in the Events section a non-blank line that starts with a
\* space, or whose first token is Sprite, Animation or Sample, is appended
\* unchanged to the storyboard data and raises nothing; no other line changes
\* the storyboard data, and the returned document holds the list as it is.
C10_StoryboardVerbatim ==
    [][/\ IF /\ Consumed
             /\ section = <<"events">>
             /\ Dispatched(NewLine)
             /\ \/ Ch(NewLine, 1) = " "
                \/ Split[NewLine, ","][1] \in {"Sprite", "Animation", "Sample"}
          THEN /\ pc' = "loop"
               /\ StoryboardData(events') = Append(StoryboardData(events), NewLine)
          ELSE StoryboardData(events') = StoryboardData(events)
       /\ pc' = "done" => StoryboardData(doc'[1].events) = StoryboardData(events)]_vars

\* A returned file whose storyboard data is four lines in file order, a
\* break, a background and a comment among them.
C10_Witness ==
    /\ pc = "done"
    /\ StoryboardData(doc[1].events) =
           <<"Sprite,Background,Centre,\"sb.png\",320,240", " F,0,0,500,1",
             " M,0,100,200,320,240", "Sample,100,0,\"a.wav\",70">>
=============================================================================
